---- MODULE Spec2Model ----
(***************************************************************************)
(* Model of smartmeter-exporter (src/src/main.rs).                         *)
(*                                                                         *)
(* Two threads per session: the foreground (main -> initialize ->          *)
(* send_initialize_command_sequence -> polling loop) and the reader thread *)
(* spawned by initialize.  They share the serial port (wire), the mpsc     *)
(* channel (queue) and the AtomicBool is_closed of the transport pair.     *)
(* The device on the other end of the serial line is the environment: a    *)
(* read of the port may return any piece of any stream of frames of        *)
(* Frames, or a byte that starts no frame, or time out.                    *)
(***************************************************************************)
EXTENDS Integers, Sequences, FiniteSets, TLC

\* ---------------------------------------------------------------- bounds
\* What may be under way between the port and the foreground: the bytes in
\* the reader's buf plus two for every queued item (a frame is two bytes
\* long).  At this bound the port returns no more bytes and no more
\* timeouts; the channel and buf themselves are unbounded.
MaxPending == 3
\* Bytes one read of the port returns at most (the code reads into 1024).
MaxRead == 2
\* Energy requests per session.
MaxPolls == 1

\* ------------------------------------------------------ program constants
\* uart.set_timeout(Duration::from_millis(5000)), in seconds
READ_TIMEOUT == 5
\* wait_for_connect: Duration::from_secs(30)
CONNECT_TIMEOUT == 30
\* RequestUnit and poll tick: Duration::from_secs(19)
WAIT_RESPONSE_TIMEOUT == 19
\* wait_for_connect: let total_wait_time = Duration::from_millis(0); the
\* binding is immutable and never reassigned.
total_wait_time == 0
\* Command::ActiveScan { duration: 6 }
SCAN_DURATION == 6
\* sub-register indexes of Command::SkSreg
SREG_CHANNEL == 2
SREG_PAN_ID == 3
\* event numbers
EVENT_SCAN_DONE == 34
EVENT_PANA_FAIL == 36
EVENT_PANA_OK == 37

\* The transport pairs (UartReader, UartWriter, channel, reader thread) that
\* can exist at a time: the one of the session under way and the one of
\* the session before it.  main's outer loop uses them in turn.
Sessions == 1..2

\* ------------------------------------------------------------- responses
EOJ_HOUSING_LOW_VOLTAGE_SMART_METER == "meter"
EOJ_OTHER == "controller"
CUMULATIVE_ENERGY_UNIT == "E1"
INSTANTANEOUS_ENERGY == "E7"
CUMULATIVE_ENERGY_FIXED_TIME_NORMAL_DIRECTION == "EA"
EPC_OTHER == "80"

Prop(epc, pdc, edt) == [epc |-> epc, pdc |-> pdc, edt |-> edt]
ERxUdp(seoj, props) == [t |-> "ERxUdp", seoj |-> seoj, props |-> props]
Event(num) == [t |-> "Event", num |-> num]
EPanDesc(ch, pan, addr) ==
    [t |-> "EPanDesc", pandesc |-> [channel |-> ch, pan_id |-> pan, addr |-> addr]]
UartTimeOut == [t |-> "UartTimeOut"]

\* The frames the device can send.  On the wire a frame is SOF followed by
\* its index in this table.
Frames == <<
    [t |-> "SkReset"],
    [t |-> "SkSetRbid"],
    [t |-> "SkSetPwd"],
    [t |-> "SkScan"],
    EPanDesc(33, 1, 1),
    EPanDesc(36, 2, 2),
    Event(EVENT_SCAN_DONE),
    [t |-> "SkSreg"],
    [t |-> "SkLl64", ipaddr |-> 7],
    [t |-> "SkJoin"],
    Event(EVENT_PANA_FAIL),
    Event(EVENT_PANA_OK),
    Event(33),
    [t |-> "SkSendTo", result |-> 0],
    [t |-> "SkSendTo", result |-> 1],
    ERxUdp(EOJ_HOUSING_LOW_VOLTAGE_SMART_METER, <<Prop(CUMULATIVE_ENERGY_UNIT, 1, <<11>>)>>),
    ERxUdp(EOJ_HOUSING_LOW_VOLTAGE_SMART_METER, <<Prop(CUMULATIVE_ENERGY_UNIT, 1, <<1>>)>>),
    ERxUdp(EOJ_HOUSING_LOW_VOLTAGE_SMART_METER, <<Prop(CUMULATIVE_ENERGY_UNIT, 1, <<5>>)>>),
    ERxUdp(EOJ_OTHER, <<Prop(CUMULATIVE_ENERGY_UNIT, 1, <<11>>)>>),
    ERxUdp(EOJ_HOUSING_LOW_VOLTAGE_SMART_METER,
           <<Prop(INSTANTANEOUS_ENERGY, 4, <<0, 0, 2, 154>>),
             Prop(CUMULATIVE_ENERGY_FIXED_TIME_NORMAL_DIRECTION, 11,
                  <<7, 230, 11, 2, 15, 0, 0, 0, 0, 0, 100>>)>>),
    ERxUdp(EOJ_HOUSING_LOW_VOLTAGE_SMART_METER, <<Prop(EPC_OTHER, 1, <<0>>)>>) >>

NFrames == Len(Frames)
FrameIds == 1..NFrames
\* the byte every frame starts with
SOF == 0
\* a byte that is neither SOF nor the index of a frame
BAD == NFrames + 1

\* -------------------------------------------------------------- commands
SkReset == [c |-> "SkReset"]
SkSetRbid == [c |-> "SkSetRbid"]
SkSetPwd == [c |-> "SkSetPwd"]
ActiveScan == [c |-> "ActiveScan", duration |-> SCAN_DURATION]
SkSreg(sreg, val) == [c |-> "SkSreg", sreg |-> sreg, val |-> val]
SkLl64(addr64) == [c |-> "SkLl64", addr64 |-> addr64]
SkJoin(ipaddr) == [c |-> "SkJoin", ipaddr |-> ipaddr]
SendCumulativeEnergyUnitRequeest(ipaddr) ==
    [c |-> "SendCumulativeEnergyUnitRequeest", ipaddr |-> ipaddr]
SendEnergyRequest(ipaddr) == [c |-> "SendEnergyRequest", ipaddr |-> ipaddr]

NoPanDesc == [channel |-> 0, pan_id |-> 0, addr |-> 0]
NoAddr == 0

VARIABLES
    cur,            \* the transport pair of the session under way (0: none yet)
    pc,             \* the foreground's position
    step,           \* the handshake step the foreground is at (1..9)
    is_closed,      \* per session: the transport pair's shared flag
    rpc,            \* per session: the reader thread's position
    buf,            \* per session: the reader thread's buf
    bn,             \* per session: &b[..n], the bytes read in this turn
    queue,          \* per session: the channel's contents
    receiver_alive, \* per session: the Receiver has not been dropped
    written,        \* commands written to the port in this session
    acks,           \* responses that let the join sequence go on, in order
    tmp,            \* active_scan's tmp (NoPanDesc: the initial Err)
    pan_desc,       \* send_initialize_command_sequence's pan_desc
    ipv6_addr,      \* the resolved address
    unit,           \* the scale, in ten-thousandths (0: 0.0)
    elapsed,        \* seconds since the running timer was started
    err,            \* the error the failed join sequence returns
    instantaneous_energy, \* the gauge instantaneous_energy
    cumulative_energy     \* the gauge cumulative_energy, in ten-thousandths

vars == <<cur, pc, step, is_closed, rpc, buf, bn, queue, receiver_alive,
          written, acks, tmp, pan_desc, ipv6_addr, unit, elapsed, err,
          instantaneous_energy, cumulative_energy>>

gauges == <<instantaneous_energy, cumulative_energy>>
ctl == <<pc, step, elapsed, err>>
data == <<tmp, pan_desc, ipv6_addr, unit>>
fgvars == <<cur, ctl, written, acks, data, gauges>>
rdvars == <<rpc, buf, bn>>

\* ------------------------------------------------------------ the parser
\* parser(&buf) of src/parser.rs: the next complete frame of buf and the
\* unconsumed rest, or Incomplete, or Error.
parser(b) ==
    IF Len(b) = 0 THEN [r |-> "Incomplete"]
    ELSE IF b[1] # SOF THEN [r |-> "Error"]
    ELSE IF Len(b) < 2 THEN [r |-> "Incomplete"]
    ELSE IF b[2] \notin FrameIds THEN [r |-> "Error"]
    ELSE [r |-> "Ok", line |-> Frames[b[2]], rest |-> SubSeq(b, 3, Len(b))]

\* --------------------------------------------------------------- helpers
\* The Sender is owned by the reader thread's closure until drop(sender).
SenderAlive(s) == rpc[s] \in {"read", "port"}
ReaderRunning(s) == rpc[s] \in {"read", "port", "drop_reader"}
\* ReaderFinished of a join that does not wait.
ReaderFinished_nowait(s) == TRUE
\* handle.join() returns for the thread of session s
ReaderFinished(s) == rpc[s] \in {"done", "panicked"}

\* The foreground positions at which a wait runs (wait_for_connect keeps no
\* clock in the code; the time is kept there to state what has passed).
TimerRunning == pc \in {"connect_recv", "unit_recv", "poll_recv"}

\* The limit the running wait compares with (wait_for_connect's 30 s, the
\* 19 s of RequestUnit and of a poll tick).
Deadline ==
    IF pc = "connect_recv" THEN CONNECT_TIMEOUT ELSE WAIT_RESPONSE_TIMEOUT

\* One read timeout later.  Past the deadline the clock is left alone: all
\* the code asks is whether the deadline has passed.
Advance(t) == IF TimerRunning /\ t <= Deadline THEN t + READ_TIMEOUT ELSE t

\* What is under way in session s.
Pending(s) == Len(buf[s]) + 2 * Len(queue[s])

\* The stream of the frames ids: <<SOF, ids[1], SOF, ids[2], ...>>.
Stream(ids) == [i \in 1..(2 * Len(ids)) |-> IF i % 2 = 1 THEN SOF ELSE ids[i \div 2]]

\* The next n bytes of the device's stream when the reader's buf is b (buf
\* always starts at the start of a frame, so its length tells whether the
\* stream is inside a frame): every choice of the frames they belong to.
Chunks(b, n) ==
    LET off == Len(b) % 2 IN
      { SubSeq(Stream(ids \o <<1>>), off + 1, off + n) :
           ids \in [1..((off + n) \div 2) -> FrameIds] }

\* sender.send(x).unwrap(): the item is queued, or the thread panics when
\* the Receiver is gone; unwinding drops the Sender and the UartReader.
sender_send(s, x) ==
    IF receiver_alive[s]
    THEN /\ queue' = [queue EXCEPT ![s] = Append(@, x)]
         /\ rpc' = [rpc EXCEPT ![s] = "read"]
         /\ UNCHANGED is_closed
    ELSE /\ rpc' = [rpc EXCEPT ![s] = "panicked"]
         /\ is_closed' = [is_closed EXCEPT ![s] = TRUE]
         /\ UNCHANGED queue

\* reader_parse that keeps nothing of buf after a frame.
reader_parse_droprest(s, b) ==
    LET p == parser(b) IN
      CASE p.r = "Ok" ->
             /\ sender_send(s, p.line)
             /\ buf' = [buf EXCEPT ![s] = <<>>]
        [] p.r = "Incomplete" ->
             /\ rpc' = [rpc EXCEPT ![s] = "read"]
             /\ buf' = [buf EXCEPT ![s] = b]
             /\ UNCHANGED <<queue, is_closed>>
        [] OTHER ->
             /\ rpc' = [rpc EXCEPT ![s] = "drop_reader"]
             /\ buf' = [buf EXCEPT ![s] = b]
             /\ UNCHANGED <<queue, is_closed>>

\* reader_parse that goes on reading after a parse error.
reader_parse_retry(s, b) ==
    LET p == parser(b) IN
      CASE p.r = "Ok" ->
             /\ sender_send(s, p.line)
             /\ buf' = [buf EXCEPT ![s] = p.rest]
        [] OTHER ->
             /\ rpc' = [rpc EXCEPT ![s] = "read"]
             /\ buf' = [buf EXCEPT ![s] = b]
             /\ UNCHANGED <<queue, is_closed>>

\* match parser(&buf) on the reader's buffer b: a frame is queued and
\* removed from buf; Incomplete leaves buf as it is; any other error ends
\* the loop (break, then drop(sender)).  One frame at most is taken per
\* turn of the loop.
reader_parse(s, b) ==
    LET p == parser(b) IN
      CASE p.r = "Ok" ->
             /\ sender_send(s, p.line)
             /\ buf' = [buf EXCEPT ![s] = p.rest]
        [] p.r = "Incomplete" ->
             /\ rpc' = [rpc EXCEPT ![s] = "read"]
             /\ buf' = [buf EXCEPT ![s] = b]
             /\ UNCHANGED <<queue, is_closed>>
        [] OTHER ->
             /\ rpc' = [rpc EXCEPT ![s] = "drop_reader"]
             /\ buf' = [buf EXCEPT ![s] = b]
             /\ UNCHANGED <<queue, is_closed>>

\* Time passes while a wait of the foreground runs.
TimePasses ==
    /\ TimerRunning
    /\ elapsed <= Deadline
    /\ elapsed' = Advance(elapsed)
    /\ UNCHANGED <<cur, pc, step, err, written, acks, data, gauges, rdvars,
                   is_closed, queue, receiver_alive>>

\* ------------------------------------------------------ the reader thread
\* UartReader::read that enters the port's read without loading the flag.
UartReader_read_unchecked(s) ==
    /\ rpc[s] = "read"
    /\ rpc' = [rpc EXCEPT ![s] = "port"]
    /\ bn' = [bn EXCEPT ![s] = <<>>]
    /\ UNCHANGED <<fgvars, buf, is_closed, queue, receiver_alive>>

\* UartReader::read, first half: the flag is loaded; set, the read fails
\* (Err(e) arm: break, then drop(sender)), clear, the thread enters the
\* port's read.
UartReader_read(s) ==
    /\ rpc[s] = "read"
    /\ rpc' = [rpc EXCEPT ![s] = IF is_closed[s] THEN "drop_reader" ELSE "port"]
    /\ bn' = [bn EXCEPT ![s] = <<>>]
    /\ UNCHANGED <<fgvars, buf, is_closed, queue, receiver_alive>>

\* self.inner.read(buf) returns Ok(n), n > 0: the bytes are appended to buf
\* and the parser is called.  The bytes are the next n of the device's
\* stream, or one byte that starts no frame.
PortReadData(s) ==
    /\ rpc[s] = "port"
    /\ \E n \in 1..MaxRead :
          /\ Pending(s) + n <= MaxPending
          /\ \E chunk \in Chunks(buf[s], n) \cup
                          (IF n = 1 /\ Len(buf[s]) % 2 = 0 THEN {<<BAD>>} ELSE {}) :
                /\ reader_parse(s, buf[s] \o chunk)
                /\ bn' = [bn EXCEPT ![s] = chunk]
    /\ UNCHANGED <<fgvars, receiver_alive>>

\* self.inner.read(buf) returns Err(TimedOut): nothing arrived within the
\* read timeout; Response::UartTimeOut is queued and the loop continues
\* without calling the parser.
PortReadTimeout(s) ==
    /\ rpc[s] = "port"
    /\ Pending(s) + 2 <= MaxPending
    /\ sender_send(s, UartTimeOut)
    /\ elapsed' = Advance(elapsed)
    /\ UNCHANGED <<cur, pc, step, err, written, acks, data, gauges, buf, bn,
                   receiver_alive>>

\* self.inner.read(buf) returns Ok(0) (the `_ => {}` arm: the parser is
\* called on the unchanged buf) or another error (Err(e) arm: break, then
\* drop(sender)).
PortReadOther(s) ==
    /\ rpc[s] = "port"
    /\ \/ reader_parse(s, buf[s])
       \/ /\ rpc' = [rpc EXCEPT ![s] = "drop_reader"]
          /\ UNCHANGED <<buf, is_closed, queue>>
    /\ UNCHANGED <<fgvars, bn, receiver_alive>>

\* The closure returns: its captured UartReader is dropped (Drop for
\* UartReader sets the flag) and the thread is finished.
ReaderDropReader(s) ==
    /\ rpc[s] = "drop_reader"
    /\ is_closed' = [is_closed EXCEPT ![s] = TRUE]
    /\ rpc' = [rpc EXCEPT ![s] = "done"]
    /\ buf' = [buf EXCEPT ![s] = <<>>]
    /\ bn' = [bn EXCEPT ![s] = <<>>]
    /\ UNCHANGED <<fgvars, queue, receiver_alive>>

Reader ==
    \E s \in Sessions :
        \/ UartReader_read(s)
        \/ PortReadData(s)
        \/ PortReadTimeout(s)
        \/ PortReadOther(s)
        \/ ReaderDropReader(s)

\* ---------------------------------------------------------- the foreground
\* Bytes::get_u8 and Bytes::get_u32 (big-endian) on a property's edt, and
\* Bytes::slice(from..to).
get_u8(edt) == edt[1]
get_u32(edt) == ((edt[1] * 256 + edt[2]) * 256 + edt[3]) * 256 + edt[4]
slice(edt, from, to) == SubSeq(edt, from + 1, to)

\* The handshake steps of send_initialize_command_sequence that write one
\* command and take one response: 1 reset, 2 id, 3 password, 4 scan,
\* 5 channel, 6 pan id, 7 address, 8 join.  Step 9 is the unit request and
\* step 10 the energy request of the polling loop.
STEP_SCAN == 4
STEP_LL64 == 7
STEP_JOIN == 8
STEP_UNIT == 9
STEP_POLL == 10

\* StepCommand with the two sub-register writes exchanged.
StepCommand_swapped(s) ==
    CASE s = 1 -> SkReset
      [] s = 2 -> SkSetRbid
      [] s = 3 -> SkSetPwd
      [] s = 4 -> ActiveScan
      [] s = 5 -> SkSreg(SREG_PAN_ID, pan_desc.pan_id)
      [] s = 6 -> SkSreg(SREG_CHANNEL, pan_desc.channel)
      [] s = 7 -> SkLl64(pan_desc.addr)
      [] s = 8 -> SkJoin(ipv6_addr)
      [] s = 9 -> SendCumulativeEnergyUnitRequeest(ipv6_addr)
      [] OTHER -> SendEnergyRequest(ipv6_addr)

\* the command each step writes
StepCommand(s) ==
    CASE s = 1 -> SkReset
      [] s = 2 -> SkSetRbid
      [] s = 3 -> SkSetPwd
      [] s = 4 -> ActiveScan
      [] s = 5 -> SkSreg(SREG_CHANNEL, pan_desc.channel)
      [] s = 6 -> SkSreg(SREG_PAN_ID, pan_desc.pan_id)
      [] s = 7 -> SkLl64(pan_desc.addr)
      [] s = 8 -> SkJoin(ipv6_addr)
      [] s = 9 -> SendCumulativeEnergyUnitRequeest(ipv6_addr)
      [] OTHER -> SendEnergyRequest(ipv6_addr)

\* StepMatches that lets a read timeout pass for the ack.
StepMatches_timeout(s, r) ==
    \/ r.t = "UartTimeOut"
    \/ CASE s = 1 -> r.t = "SkReset"
          [] s = 2 -> r.t = "SkSetRbid"
          [] s = 3 -> r.t = "SkSetPwd"
          [] s = 4 -> r.t = "SkScan"
          [] s = 5 -> r.t = "SkSreg"
          [] s = 6 -> r.t = "SkSreg"
          [] s = 7 -> r.t = "SkLl64"
          [] OTHER -> r.t = "SkJoin"

\* matches!(r, ...) of each step
StepMatches(s, r) ==
    CASE s = 1 -> r.t = "SkReset"
      [] s = 2 -> r.t = "SkSetRbid"
      [] s = 3 -> r.t = "SkSetPwd"
      [] s = 4 -> r.t = "SkScan"
      [] s = 5 -> r.t = "SkSreg"
      [] s = 6 -> r.t = "SkSreg"
      [] s = 7 -> r.t = "SkLl64"
      [] OTHER -> r.t = "SkJoin"

\* the Err each step returns on a mismatch
StepError(s) ==
    CASE s = 1 -> "SKRESET failed"
      [] s = 2 -> "SKSETRBID failed"
      [] s = 3 -> "SKSETPWD failed"
      [] s = 4 -> "SKSCAN failed"
      [] s = 5 -> "SKSREG failed"
      [] s = 6 -> "SKSREG failed"
      [] s = 7 -> "SKLL64 failed"
      [] OTHER -> "SKJOIN failed"

\* receiver.recv(): the head of the queue when there is one ...
RecvReady == queue[cur] # <<>>
\* ... and Err(RecvError) when the queue is empty and the Sender dropped.
RecvClosed == queue[cur] = <<>> /\ ~SenderAlive(cur)
Pop == queue' = [queue EXCEPT ![cur] = Tail(@)]

\* The foreground goes on at position p of step st with the clock at t.
Goto(p, st, t) == pc' = p /\ step' = st /\ elapsed' = t /\ err' = err

\* send_initialize_command_sequence returns Err(e) to initialize.
Fail(e) == pc' = "fail_drop" /\ step' = step /\ elapsed' = 0 /\ err' = e

\* The transport pair the next call of initialize creates.
NextSession == IF cur = 1 THEN 2 ELSE 1

\* initialize up to the spawn of the reader thread; entered from main's
\* loop (after the 30 s sleep of the Err arm, or after a teardown).
Initialize ==
    /\ pc = "initialize"
    /\ ~ReaderRunning(NextSession)
    /\ cur' = NextSession
    /\ is_closed' = [is_closed EXCEPT ![cur'] = FALSE]
    /\ rpc' = [rpc EXCEPT ![cur'] = "read"]
    /\ buf' = [buf EXCEPT ![cur'] = <<>>]
    /\ bn' = [bn EXCEPT ![cur'] = <<>>]
    /\ queue' = [queue EXCEPT ![cur'] = <<>>]
    /\ receiver_alive' = [receiver_alive EXCEPT ![cur'] = TRUE]
    /\ written' = <<>>
    /\ acks' = <<>>
    /\ pc' = "send"
    /\ step' = 1
    /\ elapsed' = 0
    /\ err' = "none"
    /\ tmp' = NoPanDesc
    /\ pan_desc' = NoPanDesc
    /\ ipv6_addr' = NoAddr
    /\ unit' = 0
    /\ UNCHANGED gauges

\* UartWriter::flush on a pair whose flag is closed: the error, or the
\* port's flush.  (No caller: send_command uses write_all only.)
UartWriter_flush(closed) ==
    IF closed THEN "uart reader is disconnected" ELSE "inner.flush"

\* UartWriter::write that goes to the port without loading the flag.
UartWriter_write_unchecked ==
    /\ pc = "send"
    /\ step = STEP_POLL => Len(written) < STEP_UNIT + MaxPolls
    /\ Goto("write", step, 0)
    /\ UNCHANGED <<cur, written, acks, data, gauges, rdvars, is_closed, queue,
                   receiver_alive>>

\* UartWriter::write, first half: the flag is loaded; set, the write fails
\* with "uart reader is disconnected" and send_command's `?` returns it
\* (in the polling loop: break 'main).
UartWriter_write ==
    /\ pc = "send"
    /\ step = STEP_POLL => Len(written) < STEP_UNIT + MaxPolls
    /\ IF is_closed[cur]
       THEN IF step = STEP_POLL
            THEN Goto("teardown_drop", step, 0)
            ELSE Fail("uart reader is disconnected")
       ELSE Goto("write", step, 0)
    /\ UNCHANGED <<cur, written, acks, data, gauges, rdvars, is_closed, queue,
                   receiver_alive>>

\* The top of wait_for_connect's loop at time t.
wait_for_connect_top(t) ==
    IF total_wait_time > CONNECT_TIMEOUT
    THEN Fail("connect timeout")
    ELSE Goto("connect_recv", step, t)

\* The top of RequestUnit's 'wait_response at time t with unit u: after
\* more than 19 seconds the loop is left and unit decides between Err and
\* Ok((ipv6_addr, unit)); with Ok, initialize returns to main, which enters
\* the polling loop.
unit_top(t, u) ==
    IF t > WAIT_RESPONSE_TIMEOUT
    THEN IF u = 0
         THEN Fail("Get cumulative energy unit failed")
         ELSE Goto("send", STEP_POLL, 0)
    ELSE Goto("unit_recv", step, t)

\* poll_top whose clock is not read (cf. wait_for_connect's).
poll_top_never(t) == Goto("poll_recv", step, t)

\* The top of the polling loop's 'wait_response at time t: after more than
\* 19 seconds the tick ends.
poll_top(t) ==
    IF t > WAIT_RESPONSE_TIMEOUT
    THEN Goto("send", STEP_POLL, 0)
    ELSE Goto("poll_recv", step, t)

\* UartWriter::write, second half: self.inner.write(buf) puts the command
\* on the port.  After the unit request and after an energy request the
\* timer is started (Instant::now()) and the wait loop entered.
PortWrite ==
    /\ pc = "write"
    /\ written' = Append(written, StepCommand(step))
    /\ CASE step = STEP_UNIT -> unit_top(0, 0)
         [] step = STEP_POLL -> poll_top(0)
         [] OTHER -> Goto("recv", step, 0)
    /\ unit' = IF step = STEP_UNIT THEN 0 ELSE unit
    /\ UNCHANGED <<cur, acks, tmp, pan_desc, ipv6_addr, gauges, rdvars,
                   is_closed, queue, receiver_alive>>

\* let r = receiver.recv()?; if !matches!(r, ...) { return Err(...) } of
\* steps 1..8.  After the scan's ack active_scan enters its loop; after the
\* join's ack wait_for_connect is called.
StepRecv ==
    /\ pc = "recv"
    /\ \/ /\ RecvReady
          /\ Pop
          /\ LET r == Head(queue[cur]) IN
               IF StepMatches(step, r)
               THEN /\ CASE step = STEP_SCAN -> Goto("scan_loop", step, 0)
                         [] step = STEP_JOIN -> wait_for_connect_top(0)
                         [] OTHER -> Goto("send", step + 1, 0)
                    /\ ipv6_addr' = IF step = STEP_LL64 THEN r.ipaddr ELSE ipv6_addr
                    /\ tmp' = IF step = STEP_SCAN THEN NoPanDesc ELSE tmp
                    /\ acks' = Append(acks, r)
               ELSE /\ Fail(StepError(step))
                    /\ UNCHANGED <<ipv6_addr, tmp, acks>>
       \/ /\ RecvClosed
          /\ Fail("RecvError")
          /\ UNCHANGED <<ipv6_addr, tmp, acks, queue>>
    /\ UNCHANGED <<cur, written, pan_desc, unit, gauges, rdvars, is_closed,
                   receiver_alive>>

\* scan_tmp that keeps the first scan result.
scan_tmp_first(t, r) == IF r.t = "EPanDesc" /\ t = NoPanDesc THEN r.pandesc ELSE t

\* active_scan's tmp after the arm of item r that does not return:
\* Response::EPanDesc(pandesc) => tmp = Ok(pandesc), _ => {}.
scan_tmp(t, r) == IF r.t = "EPanDesc" THEN r.pandesc ELSE t

\* The loop of active_scan.
active_scan ==
    /\ pc = "scan_loop"
    /\ \/ /\ RecvReady
          /\ Pop
          /\ LET r == Head(queue[cur]) IN
               IF r.t = "Event" /\ r.num = EVENT_SCAN_DONE
               THEN IF tmp = NoPanDesc
                    THEN /\ Fail("unable to find sensor within duration")
                         /\ UNCHANGED <<tmp, pan_desc, acks>>
                    ELSE /\ Goto("send", step + 1, 0)
                         /\ pan_desc' = tmp
                         /\ acks' = Append(acks, r)
                         /\ UNCHANGED tmp
               ELSE /\ tmp' = scan_tmp(tmp, r)
                    /\ UNCHANGED <<ctl, pan_desc, acks>>
       \/ /\ RecvClosed
          /\ Fail("RecvError")
          /\ UNCHANGED <<tmp, pan_desc, acks, queue>>
    /\ UNCHANGED <<cur, written, ipv6_addr, unit, gauges, rdvars, is_closed,
                   receiver_alive>>

\* connect_arm that takes every event other than 0x24 for the success.
connect_arm_any(r) ==
    CASE r.t = "Event" /\ r.num = EVENT_PANA_FAIL -> "Err"
      [] r.t = "Event" -> "Ok"
      [] OTHER -> "ignore"

\* The arm of wait_for_connect's match that item r takes.
connect_arm(r) ==
    CASE r.t = "Event" /\ r.num = EVENT_PANA_FAIL -> "Err"
      [] r.t = "Event" /\ r.num = EVENT_PANA_OK -> "Ok"
      [] OTHER -> "ignore"

\* The body of wait_for_connect's loop.
wait_for_connect ==
    /\ pc = "connect_recv"
    /\ \/ /\ RecvReady
          /\ Pop
          /\ LET r == Head(queue[cur]) IN
               CASE connect_arm(r) = "Err" ->
                      /\ Fail("failed to connect to PANA")
                      /\ UNCHANGED acks
                 [] connect_arm(r) = "Ok" ->
                      /\ Goto("send", STEP_UNIT, 0)
                      /\ acks' = Append(acks, r)
                 [] OTHER ->
                      /\ wait_for_connect_top(elapsed)
                      /\ UNCHANGED acks
       \/ /\ RecvClosed
          /\ Fail("RecvError")
          /\ UNCHANGED <<acks, queue>>
    /\ UNCHANGED <<cur, written, data, gauges, rdvars, is_closed,
                   receiver_alive>>

\* unit_of whose `_` arm yields 1.0 instead of returning Err.
unit_of_lenient(unit_data) ==
    CASE unit_data = 0 -> 10000
      [] unit_data = 1 -> 1000
      [] unit_data = 2 -> 100
      [] unit_data = 3 -> 10
      [] unit_data = 4 -> 1
      [] unit_data = 10 -> 100000
      [] unit_data = 11 -> 1000000
      [] unit_data = 12 -> 10000000
      [] unit_data = 13 -> 100000000
      [] OTHER -> 10000

\* unit = match unit_data { ... }: the multiplier in ten-thousandths, or -1
\* for the `_` arm (return Err).
unit_of(unit_data) ==
    CASE unit_data = 0 -> 10000
      [] unit_data = 1 -> 1000
      [] unit_data = 2 -> 100
      [] unit_data = 3 -> 10
      [] unit_data = 4 -> 1
      [] unit_data = 10 -> 100000
      [] unit_data = 11 -> 1000000
      [] unit_data = 12 -> 10000000
      [] unit_data = 13 -> 100000000
      [] OTHER -> -1

\* for prop in props { ... } of RequestUnit, started with unit = u: the
\* unit after the loop, or -1 when a property made the function return Err.
RECURSIVE unit_props(_, _)
unit_props(props, u) ==
    IF props = <<>> THEN u
    ELSE LET prop == Head(props) IN
         IF prop.epc = CUMULATIVE_ENERGY_UNIT /\ prop.pdc = 1
         THEN IF unit_of(get_u8(prop.edt)) = -1
              THEN -1
              ELSE unit_props(Tail(props), unit_of(get_u8(prop.edt)))
         ELSE unit_props(Tail(props), u)

\* The body of RequestUnit's 'wait_response.  No arm leaves the loop other
\* than by return Err: after every item the loop goes back to its top.
RequestUnit ==
    /\ pc = "unit_recv"
    /\ \/ /\ RecvReady
          /\ Pop
          /\ LET r == Head(queue[cur]) IN
               CASE r.t = "SkSendTo" /\ r.result = 0 ->
                      /\ unit_top(elapsed, unit)
                      /\ UNCHANGED unit
                 [] r.t = "SkSendTo" ->
                      /\ Fail("Send cumulative energy unit request failed")
                      /\ UNCHANGED unit
                 [] r.t = "ERxUdp" /\ r.seoj = EOJ_HOUSING_LOW_VOLTAGE_SMART_METER ->
                      IF unit_props(r.props, unit) = -1
                      THEN /\ Fail("Invalid cumulative energy unit")
                           /\ UNCHANGED unit
                      ELSE /\ unit' = unit_props(r.props, unit)
                           /\ unit_top(elapsed, unit')
                 [] OTHER ->
                      /\ unit_top(elapsed, unit)
                      /\ UNCHANGED unit
       \/ /\ RecvClosed
          /\ Fail("RecvError")
          /\ UNCHANGED <<unit, queue>>
    /\ UNCHANGED <<cur, written, acks, tmp, pan_desc, ipv6_addr, gauges,
                   rdvars, is_closed, receiver_alive>>

\* poll_props that sets the cumulative gauge without the unit.
RECURSIVE poll_props_unscaled(_, _)
poll_props_unscaled(props, g) ==
    IF props = <<>> THEN g
    ELSE LET prop == Head(props) IN
         IF prop.epc = INSTANTANEOUS_ENERGY /\ prop.pdc = 4
         THEN poll_props_unscaled(Tail(props), <<get_u32(prop.edt), g[2]>>)
         ELSE IF prop.epc = CUMULATIVE_ENERGY_FIXED_TIME_NORMAL_DIRECTION
                 /\ prop.pdc = 11
         THEN poll_props_unscaled(Tail(props),
                                  <<g[1], get_u32(slice(prop.edt, 7, 11))>>)
         ELSE poll_props_unscaled(Tail(props), g)

\* for prop in props { ... } of the polling loop: the two gauges after it,
\* started with g.
RECURSIVE poll_props(_, _)
poll_props(props, g) ==
    IF props = <<>> THEN g
    ELSE LET prop == Head(props) IN
         IF prop.epc = INSTANTANEOUS_ENERGY /\ prop.pdc = 4
         THEN poll_props(Tail(props), <<get_u32(prop.edt), g[2]>>)
         ELSE IF prop.epc = CUMULATIVE_ENERGY_FIXED_TIME_NORMAL_DIRECTION
                 /\ prop.pdc = 11
         THEN poll_props(Tail(props),
                         <<g[1], get_u32(slice(prop.edt, 7, 11)) * unit>>)
         ELSE poll_props(Tail(props), g)

\* The polling loop's recv() that treats the closed queue as a timeout.
poll_recv_err_timeout == Goto("send", STEP_POLL, 0)

\* Err(e) of the polling loop's receiver.recv(): break 'main.
poll_recv_err == Goto("teardown_drop", step, 0)

\* The body of the polling loop's 'wait_response.  The tick ends (break
\* 'wait_response) and the next one starts after exporter.wait_duration.
PollTick ==
    /\ pc = "poll_recv"
    /\ \/ /\ RecvReady
          /\ Pop
          /\ LET r == Head(queue[cur]) IN
               CASE r.t = "SkSendTo" /\ r.result = 0 ->
                      /\ poll_top(elapsed)
                      /\ UNCHANGED gauges
                 [] r.t = "SkSendTo" ->
                      /\ Goto("send", STEP_POLL, 0)
                      /\ UNCHANGED gauges
                 [] r.t = "ERxUdp" /\ r.seoj = EOJ_HOUSING_LOW_VOLTAGE_SMART_METER ->
                      /\ instantaneous_energy' = poll_props(r.props, gauges)[1]
                      /\ cumulative_energy' = poll_props(r.props, gauges)[2]
                      /\ Goto("send", STEP_POLL, 0)
                 [] OTHER ->
                      /\ poll_top(elapsed)
                      /\ UNCHANGED gauges
       \/ /\ RecvClosed
          /\ poll_recv_err
          /\ UNCHANGED <<gauges, queue>>
    /\ UNCHANGED <<cur, written, acks, data, rdvars, is_closed,
                   receiver_alive>>

\* drop_writer of a teardown that lets go of the Receiver before the join.
drop_writer_and_receiver ==
    /\ pc \in {"fail_drop", "teardown_drop"}
    /\ is_closed' = [is_closed EXCEPT ![cur] = TRUE]
    /\ receiver_alive' = [receiver_alive EXCEPT ![cur] = FALSE]
    /\ pc' = IF pc = "fail_drop" THEN "fail_join" ELSE "teardown_join"
    /\ UNCHANGED <<cur, step, elapsed, err, written, acks, data, gauges,
                   rdvars, queue>>

\* drop(writer): Drop for UartWriter sets the flag.  In initialize's Err
\* arm and after main's polling loop.
drop_writer ==
    /\ pc \in {"fail_drop", "teardown_drop"}
    /\ is_closed' = [is_closed EXCEPT ![cur] = TRUE]
    /\ pc' = IF pc = "fail_drop" THEN "fail_join" ELSE "teardown_join"
    /\ UNCHANGED <<cur, step, elapsed, err, written, acks, data, gauges,
                   rdvars, queue, receiver_alive>>

\* handle.join().expect(...): returns when the reader thread has finished;
\* a panicked thread makes expect panic (the process ends).  Then
\* initialize returns Err(e), or main's loop body ends; either way the
\* Receiver is dropped and main goes round its outer loop.
handle_join ==
    /\ pc \in {"fail_join", "teardown_join"}
    /\ ReaderFinished(cur)
    /\ IF rpc[cur] = "panicked"
       THEN /\ pc' = "aborted"
            /\ UNCHANGED <<queue, receiver_alive>>
       ELSE /\ pc' = "initialize"
            /\ receiver_alive' = [receiver_alive EXCEPT ![cur] = FALSE]
            /\ queue' = [queue EXCEPT ![cur] = <<>>]
    /\ UNCHANGED <<cur, step, elapsed, err, written, acks, data, gauges,
                   rdvars, is_closed>>

Foreground ==
    \/ Initialize
    \/ UartWriter_write
    \/ PortWrite
    \/ StepRecv
    \/ active_scan
    \/ wait_for_connect
    \/ RequestUnit
    \/ PollTick
    \/ drop_writer
    \/ handle_join

Init ==
    /\ cur = 0
    /\ pc = "initialize"
    /\ step = 1
    /\ is_closed = [s \in Sessions |-> FALSE]
    /\ rpc = [s \in Sessions |-> "idle"]
    /\ buf = [s \in Sessions |-> <<>>]
    /\ bn = [s \in Sessions |-> <<>>]
    /\ queue = [s \in Sessions |-> <<>>]
    /\ receiver_alive = [s \in Sessions |-> FALSE]
    /\ written = <<>>
    /\ acks = <<>>
    /\ tmp = NoPanDesc
    /\ pan_desc = NoPanDesc
    /\ ipv6_addr = NoAddr
    /\ unit = 0
    /\ elapsed = 0
    /\ err = "none"
    /\ instantaneous_energy = 0
    /\ cumulative_energy = 0

Next == Foreground \/ Reader \/ TimePasses

Spec == Init /\ [][Next]_vars

\* The reader thread and the foreground thread are both scheduled, and the
\* port's read returns (with data, with nothing, with an error, or with
\* TimedOut after the read timeout set on the port).
PortReadReturns(s) == PortReadData(s) \/ PortReadTimeout(s) \/ PortReadOther(s)

Fairness ==
    /\ \A s \in Sessions :
          /\ WF_vars(UartReader_read(s))
          /\ WF_vars(PortReadReturns(s))
          /\ WF_vars(ReaderDropReader(s))
    /\ WF_vars(handle_join)

FairSpec == Spec /\ Fairness

\* Besides: the foreground thread runs, time passes while a wait runs, and
\* the port's read does not return Ok(0) for ever: again and again it
\* returns data or TimedOut.
LiveFairness ==
    /\ Fairness
    /\ WF_vars(Foreground)
    /\ WF_vars(TimePasses)
    /\ \A s \in Sessions : SF_vars(PortReadData(s) \/ PortReadTimeout(s))

LiveSpec == Spec /\ LiveFairness

\* ------------------------------------------------- replies read in a burst
\* The device's reply to a command and what follows it, when one read
\* returns both: the SKJOIN ack with the event 0x25, the SKSENDTO result
\* with the meter's energy datagram.
Bursts == {<<10, 12>>, <<14, 20>>}

\* self.inner.read(buf) returns Ok(n) with two whole frames at once: both
\* are appended to buf and the parser is called (once).
PortReadBurst(s) ==
    /\ rpc[s] = "port"
    /\ Pending(s) = 0
    /\ \E ids \in Bursts :
          /\ reader_parse(s, Stream(ids))
          /\ bn' = [bn EXCEPT ![s] = Stream(ids)]
    /\ UNCHANGED <<fgvars, receiver_alive>>

\* self.inner.read(buf) returns Err(TimedOut) while buf holds a whole
\* frame: Response::UartTimeOut is queued and the loop continues without
\* calling the parser.
PortReadTimeoutHeld(s) ==
    /\ rpc[s] = "port"
    /\ queue[s] = <<>>
    /\ parser(buf[s]).r = "Ok"
    /\ sender_send(s, UartTimeOut)
    /\ elapsed' = Advance(elapsed)
    /\ UNCHANGED <<cur, pc, step, err, written, acks, data, gauges, buf, bn,
                   receiver_alive>>

BurstReader == \E s \in Sessions : PortReadBurst(s) \/ PortReadTimeoutHeld(s)

BurstNext == Next \/ BurstReader

\* The threads are scheduled, time passes, and every read of the port
\* returns; again and again it returns data or TimedOut.
BurstFairness ==
    /\ \A s \in Sessions :
          /\ WF_vars(UartReader_read(s))
          /\ WF_vars(PortReadReturns(s) \/ PortReadBurst(s) \/ PortReadTimeoutHeld(s))
          /\ WF_vars(ReaderDropReader(s))
          /\ SF_vars(PortReadData(s) \/ PortReadTimeout(s)
                        \/ PortReadBurst(s) \/ PortReadTimeoutHeld(s))
    /\ WF_vars(Foreground)
    /\ WF_vars(TimePasses)

BurstSpec == Init /\ [][BurstNext]_vars /\ BurstFairness

\* ==================================================================
\* Properties of the program, by the number of the statement they settle
\* ==================================================================

\* what the foreground takes from the queue in a step
Taken == cur \in Sessions /\ queue[cur] # <<>> /\ queue'[cur] = Tail(queue[cur])
Item == Head(queue[cur])

\* ---- C1
C1_Order ==
    <<"SkReset", "SkSetRbid", "SkSetPwd", "ActiveScan", "SkSreg", "SkSreg",
      "SkLl64", "SkJoin", "SendCumulativeEnergyUnitRequeest">>

\* the responses that have to be in before the i-th command is written
C1_Needed(i) ==
    SubSeq(<<"SkReset", "SkSetRbid", "SkSetPwd", "SkScan", "Event34", "SkSreg",
             "SkSreg", "SkLl64", "SkJoin", "Event37">>,
           1, CASE i <= 4 -> i - 1 [] i <= 8 -> i [] OTHER -> 10)

C1_Kind(r) == IF r.t = "Event" THEN "Event" \o ToString(r.num) ELSE r.t

\* C1: in every session the commands are written in the order Reset, SetId,
\* SetPassword, ActiveScan, SetChannel (sub-register 2), SetPanId
\* (sub-register 3), ResolveAddress, Join, unit request, then energy requests
\* only; each is written only after the responses that end the steps before
\* it were received (the acks, event 0x22 for the scan, event 0x25 for the
\* join); an energy request is written only in a session whose join
\* sequence was completed.
C1_CommandOrder ==
    /\ \A i \in 1..Len(written) :
          /\ written[i].c = (IF i <= 9 THEN C1_Order[i] ELSE "SendEnergyRequest")
          /\ i = 5 => written[i].sreg = 2
          /\ i = 6 => written[i].sreg = 3
          /\ Len(acks) >= Len(C1_Needed(i))
          /\ \A j \in 1..Len(C1_Needed(i)) : C1_Kind(acks[j]) = C1_Needed(i)[j]
    /\ Len(written) > 9 => step = STEP_POLL /\ unit > 0

\* an energy request has been written after the nine commands of the join
C1_Witness == Len(written) = 10 /\ written[10].c = "SendEnergyRequest"

\* ---- C2
C2_NonScan == {1, 2, 3, 5, 6, 7, 8}
C2_Expected(st) ==
    <<"SkReset", "SkSetRbid", "SkSetPwd", "SkScan", "SkSreg", "SkSreg",
      "SkLl64", "SkJoin">>[st]

\* C2: at a non-scan step of the handshake, when the item taken from the
\* queue is not the ack of the step, or the queue is closed, the sequence
\* fails; from the failure on no command is written in the session.
C2_MismatchFails ==
    [][ /\ (/\ pc = "recv"
            /\ step \in C2_NonScan
            /\ \/ Taken /\ Item.t # C2_Expected(step)
               \/ queue[cur] = <<>> /\ pc' # pc)
           => pc' = "fail_drop" /\ written' = written
        /\ pc = "fail_drop" => pc' \in {"fail_drop", "fail_join"} /\ written' = written
        /\ pc = "fail_join" =>
              pc' \in {"fail_join", "initialize", "aborted"} /\ written' = written
      ]_vars

\* the address step failed on a wrong response, after seven commands
C2_Witness == pc = "fail_drop" /\ err = "SKLL64 failed" /\ Len(written) = 7

\* ---- C3
C3_Running(s) == rpc[s] \in {"read", "port", "drop_reader"}

\* C3: when the join sequence has failed, the flag is set before the reader
\* is joined, and the failure is returned (main goes round its loop) only
\* when the reader thread has ended; at most one reader thread runs at any
\* time, and no command of a session is written while the reader of another
\* session runs.
C3_OneReader ==
    /\ pc = "fail_join" => is_closed[cur]
    /\ pc = "initialize" /\ cur # 0 => ~C3_Running(cur)
    /\ Cardinality({s \in Sessions : C3_Running(s)}) <= 1
    /\ written # <<>> => \A s \in Sessions \ {cur} : ~C3_Running(s)

\* the Reset of a second session is written; the first session's reader ended
C3_Witness ==
    /\ cur = 2
    /\ Len(written) = 1
    /\ rpc[1] = "done"
    /\ C3_Running(2)

\* ---- C4
\* C4: once the flag of a session is set, its reader thread ends: a port
\* read under way returns and queues at most one item, a read attempt
\* fails on the flag without entering the port and without queueing, the
\* thread then finishes, and the foreground's join returns.
C4_ReaderExits ==
    /\ [][ \A s \in Sessions :
             is_closed[s] =>
               /\ rpc[s] = "read" =>
                     rpc'[s] \in {"read", "drop_reader"} /\ queue'[s] = queue[s]
               /\ rpc[s] = "port" =>
                     /\ rpc'[s] \in {"port", "read", "drop_reader"}
                     /\ Len(queue'[s]) <= Len(queue[s]) + 1
               /\ rpc[s] = "drop_reader" =>
                     rpc'[s] \in {"drop_reader", "done"} /\ Len(queue'[s]) <= Len(queue[s])
         ]_vars
    /\ \A s \in Sessions : (is_closed[s] /\ C3_Running(s)) ~> ~C3_Running(s)
    /\ (pc \in {"fail_join", "teardown_join"}) ~> (pc \in {"initialize", "aborted"})

\* the foreground waits in join while the reader is inside a port read
C4_Witness == pc = "fail_join" /\ is_closed[cur] /\ rpc[cur] = "port"

\* ---- C5
\* C5: the flag of a pair is false when the pair is made, is set when the
\* writer or the reader is dropped, and is not cleared as long as the pair
\* exists; with the flag set, a read attempt fails without entering the
\* port's read, a write attempt fails without writing to the port, and a
\* flush fails.
C5_ClosedFlag ==
    [][ /\ cur' # cur => ~is_closed'[cur']
        /\ \A s \in Sessions :
              /\ is_closed[s] /\ ~is_closed'[s] => cur # s /\ cur' = s
              /\ rpc[s] = "drop_reader" /\ rpc'[s] # rpc[s] => is_closed'[s]
              /\ is_closed[s] /\ rpc[s] = "read" /\ rpc'[s] # rpc[s] =>
                    rpc'[s] = "drop_reader"
              /\ is_closed[s] => UartWriter_flush(is_closed[s]) = "uart reader is disconnected"
        /\ pc \in {"fail_drop", "teardown_drop"} /\ pc' # pc => is_closed'[cur]
        /\ pc = "send" /\ is_closed[cur] /\ pc' # pc =>
              /\ pc' \in {"fail_drop", "teardown_drop"}
              /\ written' = written
              /\ pc' = "fail_drop" => err' = "uart reader is disconnected"
      ]_vars

\* a write of the handshake has failed on the flag the reader's drop had set
C5_Witness ==
    /\ pc = "fail_drop"
    /\ err = "uart reader is disconnected"
    /\ is_closed[cur]
    /\ rpc[cur] = "done"

\* ---- C6
C6_ScanDone == Item.t = "Event" /\ Item.num = 34

\* C6: after the scan's ack, active_scan starts with no scan result; an
\* EPanDesc item replaces the result kept so far; event 0x22 ends the scan
\* with the result kept (the last EPanDesc before it) or with a failure
\* when there is none; any other item changes nothing; nothing but event
\* 0x22 (or the closed queue) ends the scan.
C6_LastPanDesc ==
    [][ /\ pc # "scan_loop" /\ pc' = "scan_loop" => tmp' = NoPanDesc
        /\ pc = "scan_loop" /\ Taken =>
              IF C6_ScanDone
              THEN IF tmp = NoPanDesc
                   THEN pc' = "fail_drop" /\ err' = "unable to find sensor within duration"
                   ELSE pc' = "send" /\ step' = 5 /\ pan_desc' = tmp
              ELSE /\ pc' = "scan_loop"
                   /\ pan_desc' = pan_desc
                   /\ tmp' = IF Item.t = "EPanDesc" THEN Item.pandesc ELSE tmp
        /\ pc = "scan_loop" /\ pc' # pc =>
              \/ Taken /\ C6_ScanDone
              \/ queue[cur] = <<>> /\ pc' = "fail_drop" /\ err' = "RecvError"
      ]_vars

\* the scan has returned the PanDesc of channel 36
C6_Witness == pc = "send" /\ step = 5 /\ pan_desc.channel = 36

\* ---- C7
C7_Event(n) == Item.t = "Event" /\ Item.num = n

\* C7: in wait_for_connect, event 0x25 returns Ok (the unit request is
\* next), event 0x24 returns the PANA failure, every other item leaves the
\* function waiting; nothing but these two events (or the closed queue)
\* ends the wait.
C7_JoinResult ==
    [][ /\ pc = "connect_recv" /\ Taken =>
              CASE C7_Event(37) -> pc' = "send" /\ step' = 9
                [] C7_Event(36) -> pc' = "fail_drop" /\ err' = "failed to connect to PANA"
                [] OTHER -> pc' = "connect_recv" /\ step' = step
        /\ pc = "connect_recv" /\ pc' # pc =>
              \/ Taken /\ (C7_Event(37) \/ C7_Event(36))
              \/ queue[cur] = <<>> /\ pc' = "fail_drop" /\ err' = "RecvError"
      ]_vars

\* wait_for_connect has returned Ok on event 0x25
C7_Witness ==
    /\ pc = "send"
    /\ step = 9
    /\ Len(acks) = 10
    /\ acks[10] = [t |-> "Event", num |-> 37]

\* ---- C8
\* C8: in wait_for_connect, an item that is neither event 0x24 nor event
\* 0x25 and is taken when more than 30 seconds have passed since the wait
\* began makes the function fail with "connect timeout".
C8_ConnectTimeout ==
    [][ pc = "connect_recv" /\ elapsed > 30 /\ Taken /\ ~C7_Event(36) /\ ~C7_Event(37)
           => pc' = "fail_drop" /\ err' = "connect timeout"
      ]_vars

\* ---- C9
\* C9: in RequestUnit, once a meter datagram has set the unit, a datagram
\* taken later in the same window neither changes the unit nor makes the
\* step fail.
C9_FirstUnitWins ==
    [][ pc = "unit_recv" /\ unit # 0 /\ Taken /\ Item.t = "ERxUdp"
           => unit' = unit /\ pc' # "fail_drop"
      ]_vars

\* ---- C10
C10_Multipliers ==
    {1, 10, 100, 1000, 10000, 100000, 1000000, 10000000, 100000000}

\* scale code -> multiplier in ten-thousandths; 0 for a code outside it
C10_Table(code) ==
    CASE code = 0 -> 10000 [] code = 1 -> 1000 [] code = 2 -> 100
      [] code = 3 -> 10 [] code = 4 -> 1 [] code = 10 -> 100000
      [] code = 11 -> 1000000 [] code = 12 -> 10000000
      [] code = 13 -> 100000000 [] OTHER -> 0

C10_Meter == Item.t = "ERxUdp" /\ Item.seoj = "meter"

\* the scale codes of the unit properties of length 1 the item carries
C10_Codes ==
    { Item.props[i].edt[1] :
        i \in { j \in 1..Len(Item.props) :
                  Item.props[j].epc = "E1" /\ Item.props[j].pdc = 1 } }

\* C10: the polling loop is entered only with a unit that is one of the
\* nine multipliers; the unit is set only from the table, by a unit
\* property of a meter datagram taken in RequestUnit; RequestUnit fails on
\* an SkSendTo with a nonzero result, on a unit property with a code
\* outside the table, and when the window ends with no unit set.
C10_UnitDecode ==
    [][ /\ step' = STEP_POLL => unit' \in C10_Multipliers
        /\ unit' # unit =>
              \/ unit' = 0 /\ pc \in {"initialize", "write"}
              \/ /\ pc = "unit_recv" /\ Taken /\ C10_Meter
                 /\ \E c \in C10_Codes : unit' = C10_Table(c)
        /\ pc = "unit_recv" /\ Taken /\ Item.t = "SkSendTo" /\ Item.result # 0 =>
              pc' = "fail_drop" /\ err' = "Send cumulative energy unit request failed"
        /\ pc = "unit_recv" /\ Taken /\ C10_Meter
              /\ (\E c \in C10_Codes : C10_Table(c) = 0) =>
              pc' = "fail_drop" /\ err' = "Invalid cumulative energy unit"
        /\ pc = "unit_recv" /\ Taken /\ elapsed > 19 /\ unit' = 0 =>
              /\ pc' = "fail_drop"
              /\ ~C10_Meter /\ Item.t # "SkSendTo" =>
                    err' = "Get cumulative energy unit failed"
        /\ pc = "unit_recv" /\ unit' = 0 => pc' \in {"unit_recv", "fail_drop"}
      ]_vars

\* the polling loop is entered with the multiplier 100 of scale code 0x0B
C10_Witness == pc = "send" /\ step = STEP_POLL /\ unit = 1000000 /\ Len(written) = 9

\* ---- C11
\* C11: when a poll tick waits and the queue is closed (empty, the reader's
\* Sender dropped), the polling loop is left for the teardown and the tick
\* does not end as a timeout; as long as items are queued they are taken
\* first; the teardown sets the flag, joins the reader, and main calls
\* initialize again, whose first command is Reset; nothing is written in
\* between.
C11_QueueClosed ==
    [][ /\ pc = "poll_recv" /\ pc' # pc =>
              IF queue[cur] = <<>>
              THEN pc' = "teardown_drop" /\ rpc[cur] \notin {"read", "port"}
              ELSE Taken /\ pc' = "send"
        /\ pc = "teardown_drop" =>
              /\ pc' \in {"teardown_drop", "teardown_join"}
              /\ written' = written
              /\ pc' = "teardown_join" => is_closed'[cur]
        /\ pc = "teardown_join" =>
              /\ pc' \in {"teardown_join", "initialize", "aborted"}
              /\ written' = written
              /\ pc' = "initialize" => ~C3_Running(cur)
        /\ pc = "initialize" /\ pc' # pc =>
              pc' = "send" /\ step' = 1 /\ written' = <<>> /\ cur' # cur
        /\ written = <<>> /\ written' # <<>> => written' = <<[c |-> "SkReset"]>>
      ]_vars

\* the polling loop was left on the closed queue, the reader's flag not yet
\* stored: the write of an energy request cannot have failed
C11_Witness ==
    /\ pc = "teardown_drop"
    /\ Len(written) = 10
    /\ queue[cur] = <<>>
    /\ ~is_closed[cur]

\* ---- C12
\* what an established session consists of
C12_Session == <<cur, is_closed, rpc[cur], ipv6_addr, unit>>

\* C12: a poll tick ends in the teardown only on the closed queue; a tick
\* that ends on a timeout or on an SkSendTo with a nonzero result, and an
\* energy request that cannot be written, leave the writer, the reader
\* thread, the address and the unit as they are and main goes on with the
\* next tick's energy request.
C12_OnlyClosureTearsDown ==
    [][ step = STEP_POLL /\ pc \in {"send", "write", "poll_recv"} /\ pc' # pc =>
          /\ pc' = "teardown_drop" => pc = "poll_recv" /\ queue[cur] = <<>>
          /\ pc = "poll_recv" /\ Taken /\ Item.t = "SkSendTo" /\ Item.result # 0 =>
                pc' = "send" /\ C12_Session' = C12_Session
          /\ pc = "poll_recv" /\ Taken /\ elapsed > 19 =>
                pc' = "send" /\ C12_Session' = C12_Session
          /\ pc = "send" => pc' \in {"write", "send"} /\ C12_Session' = C12_Session
      ]_vars

\* ---- C13
C13_Relevant(props) ==
    \E i \in 1..Len(props) :
        \/ props[i].epc = "E7" /\ props[i].pdc = 4
        \/ props[i].epc = "EA" /\ props[i].pdc = 11

\* C13: in a poll tick a datagram ends the tick only when it is from the
\* meter and carries the instantaneous-energy property of length 4 or the
\* cumulative-energy property of length 11; an SkSendTo with result 0, a
\* read timeout, an event, a datagram of another source object and a
\* meter datagram with none of the two properties are ignored: the tick
\* keeps waiting (within its 19 seconds) and the readings stay.
C13_OnlyRelevantEnds ==
    [][ pc = "poll_recv" /\ Taken =>
          CASE Item.t = "ERxUdp" /\ Item.seoj = "meter" /\ C13_Relevant(Item.props) ->
                 pc' = "send"
            [] Item.t = "SkSendTo" /\ Item.result # 0 ->
                 pc' = "send"
            [] OTHER ->
                 /\ instantaneous_energy' = instantaneous_energy
                 /\ cumulative_energy' = cumulative_energy
                 /\ elapsed <= 19 => pc' = "poll_recv"
      ]_vars

\* ---- C14
\* C14: a poll tick does not wait for ever: it is left (with the reader
\* running: by an item taken; the first item taken after more than 19
\* seconds ends it); a tick that ends on an ignored item after more than 19
\* seconds ends as a timeout: the readings, the reader thread, the flag,
\* the address and the unit stay as they are and the next step is the next
\* tick's energy request.
C14_TickTimeout ==
    /\ [][ pc = "poll_recv" /\ Taken /\ elapsed > 19 =>
             /\ pc' = "send" /\ step' = STEP_POLL
             /\ C12_Session' = C12_Session
             /\ written' = written
             /\ ~(Item.t = "ERxUdp" /\ Item.seoj = "meter") =>
                   /\ instantaneous_energy' = instantaneous_energy
                   /\ cumulative_energy' = cumulative_energy
         ]_vars
    /\ (pc = "poll_recv") ~> (pc # "poll_recv")

\* a tick has waited for more than 19 seconds with the reader running, and
\* takes a read timeout next
C14_Witness ==
    /\ pc = "poll_recv"
    /\ elapsed > 19
    /\ queue[cur] = <<[t |-> "UartTimeOut"]>>
    /\ rpc[cur] \in {"read", "port"}

\* ---- C15
\* the bytes of frame f on the wire
C15_Bytes(f) == <<0, CHOOSE i \in 1..Len(Frames) : Frames[i] = f>>

C16_Malformed(x) ==
    x # <<>> /\ (x[1] # 0 \/ (Len(x) >= 2 /\ x[2] \notin 1..Len(Frames)))

C16_Receiving == pc \in {"recv", "scan_loop", "connect_recv", "unit_recv", "poll_recv"}

\* C16: when a data read leaves buf malformed, the reader leaves its loop
\* without queueing; having left the loop it reads no more and queues no
\* more, it ends with the flag set and stays ended until a new session is
\* made; with the reader out of its loop, a receive of the foreground on
\* the empty queue fails, and with the reader ended a write fails: the
\* join sequence fails or the polling loop is left.
C16_ParseErrorEndsReader ==
    [][ \A s \in Sessions :
          /\ rpc[s] = "port" /\ rpc'[s] # "port" /\ bn'[s] # <<>>
                /\ C16_Malformed(buf[s] \o bn'[s]) =>
                rpc'[s] = "drop_reader" /\ queue'[s] = queue[s]
          /\ rpc[s] = "drop_reader" =>
                /\ rpc'[s] \in {"drop_reader", "done"}
                /\ Len(queue'[s]) <= Len(queue[s])
                /\ rpc'[s] = "done" => is_closed'[s]
          /\ rpc[s] = "done" =>
                /\ is_closed[s]
                /\ rpc'[s] = "done" \/ (rpc'[s] = "read" /\ cur # s /\ cur' = s)
          /\ s = cur /\ rpc[s] \in {"drop_reader", "done"} /\ queue[s] = <<>>
                /\ C16_Receiving /\ pc' # pc =>
                pc' \in {"fail_drop", "teardown_drop"}
          /\ s = cur /\ rpc[s] = "done" /\ pc = "send" /\ pc' # pc =>
                pc' \in {"fail_drop", "teardown_drop"} /\ written' = written
      ]_vars

\* the reader has left its loop on a byte that starts no frame
C16_Witness ==
    /\ cur \in Sessions
    /\ rpc[cur] = "drop_reader"
    /\ bn[cur] # <<>>
    /\ C16_Malformed(buf[cur])

\* ---- C17
\* the big-endian 32-bit value at offset k of payload e
C17_U32(e, k) == ((e[k + 1] * 256 + e[k + 2]) * 256 + e[k + 3]) * 256 + e[k + 4]

\* the last property of props with code epc and length pdc (0: none)
C17_Last(props, epc, pdc) ==
    LET I == {i \in 1..Len(props) : props[i].epc = epc /\ props[i].pdc = pdc}
    IN IF I = {} THEN 0 ELSE CHOOSE i \in I : \A j \in I : j <= i

\* C17: the two readings change only when a poll tick takes a datagram of
\* the meter; then the instantaneous reading is the 32-bit value of its
\* instantaneous-energy property (length 4) and the cumulative reading the
\* 32-bit value at offset 7 of its cumulative-energy property (length 11)
\* times the unit of the session (a reading whose property is absent
\* stays); while a session polls, its unit does not change.
C17_Readings ==
    [][ /\ <<instantaneous_energy, cumulative_energy>>' # <<instantaneous_energy, cumulative_energy>> =>
              pc = "poll_recv" /\ Taken /\ Item.t = "ERxUdp" /\ Item.seoj = "meter"
        /\ pc = "poll_recv" /\ Taken /\ Item.t = "ERxUdp" /\ Item.seoj = "meter" =>
              LET i == C17_Last(Item.props, "E7", 4)
                  j == C17_Last(Item.props, "EA", 11)
              IN /\ instantaneous_energy' =
                       IF i = 0 THEN instantaneous_energy
                       ELSE C17_U32(Item.props[i].edt, 0)
                 /\ cumulative_energy' =
                       IF j = 0 THEN cumulative_energy
                       ELSE C17_U32(Item.props[j].edt, 7) * unit
        /\ step = STEP_POLL /\ pc # "initialize" => unit' = unit /\ unit > 0
      ]_vars

\* a tick has set both readings from the meter's datagram, the unit being 100
C17_Witness ==
    /\ step = STEP_POLL
    /\ unit = 1000000
    /\ instantaneous_energy = 666
    /\ cumulative_energy = 100 * 1000000

C19_Held(s) ==
    /\ rpc[s] \in {"read", "port"}
    /\ Len(buf[s]) >= 2
    /\ ~C16_Malformed(buf[s])

\* C19: a whole frame that has arrived in buf is eventually queued (or the
\* reader has left its loop), whatever the reads were that brought it
\* and whatever follows, read timeouts included.
C19_FrameQueued == \A s \in Sessions : C19_Held(s) ~> ~C19_Held(s)

\* ---- C20
\* an item that ends a poll tick when taken
C20_EndsTick(r) ==
    \/ r.t = "SkSendTo" /\ r.result # 0
    \/ r.t = "ERxUdp" /\ r.seoj = "meter"

\* C20: the item that ends a poll tick is a reply to the energy request of
\* that tick, hence queued after that request was written: as the tick
\* takes the items from the head of the queue, no item that ends a tick
\* waits in the queue at the moment the tick's request is written.
C20_OwnReply ==
    [][ pc = "write" /\ step = STEP_POLL /\ pc' = "poll_recv" =>
          \A i \in 1..Len(queue[cur]) : ~C20_EndsTick(queue[cur][i])
      ]_vars

====
